---------------------------- MODULE Spec2Model ----------------------------
(***************************************************************************)
(* Model of the option-chain fetch pipeline of src/main.go: main seeds a   *)
(* buffered jobs channel, numWorkers goroutines run worker(), each worker  *)
(* waits on the shared rate limiter, calls getOptionsData (one chain       *)
(* request, on 401 one refreshTokens call and one retry), keeps its own    *)
(* copy of the credential pair, and sends its batch on the results         *)
(* channel; main receives len(stockTickers) batches, sorts and prints the  *)
(* first and last K records.                                               *)
(*                                                                         *)
(* Tokens are numbered: 0 is the empty string, InitialToken is the pair    *)
(* returned by getInitialToken, and the k-th successful answer of the      *)
(* token endpoint carries the number InitialToken + k in the fields it     *)
(* fills in.  Two tokens of one answer therefore carry the same number.    *)
(***************************************************************************)
EXTENDS Integers, Sequences, FiniteSets, TLC

\* ---------------------------------------------------------------- bounds

\* Number of lines of tickers.stocks (len(stockTickers)).
NumTickers == 2

\* Number of worker goroutines started by main (the source starts 10).
numWorkers == 2

\* Number of ticks of the clock of the rate limiter that a run may see.
MaxTicks == 1

\* Number of tickers of a run of the rate-limiter specification.
NumLimTickers == 121

\* A run of the ranking specification collects K - 1 to K + MaxExtra records.
MaxExtra == 2

\* Number of assignments of volatilities to the records of such a run.
MaxSeed == 6

\* ------------------------------------------------------ program constants

\* options[:40] and the loop bound i < 40.
K == 40

\* rate.NewLimiter(rate.Limit(120), 120): bucket size.
Burst == 120

\* rate.Limit(120): tokens added per second.
RatePerSecond == 120

\* Slots into which one second (the time to refill Burst tokens at
\* RatePerSecond) is divided by the model's clock.
SlotsPerPeriod == 2

InitialToken == 1

Workers == 1..numWorkers

VARIABLES
    stockTickers,    \* the lines of tickers.stocks, as read by main
    chainOf,         \* per ticker: the bodies a 200 answer of the chain
                     \* endpoint may carry for it
    cancelled,       \* the operator has asked the run to stop
    mainPc,          \* where main is: "submit", "collect", "print",
                     \* "done", "panic"
    submitted,       \* number of tickers main has sent on jobs
    jobs,            \* buffer of the jobs channel
    closed,          \* close(jobs) has run
    results,         \* buffer of the results channel
    options,         \* main's options slice
    received,        \* main's loop counter i of the receive loop
    top,             \* records printed by the first print loop
    bottom,          \* records printed by the second print loop
    wpc,             \* where each worker is: "range", "wait", "fetch",
                     \* "refresh", "retry", "exit"
    stock,           \* the worker's loop variable (0: none)
    accessToken,     \* the worker's parameter accessToken
    refreshToken,    \* the worker's parameter refreshToken
    newAccessToken,  \* getOptionsData's newAccessToken
    newRefreshToken, \* getOptionsData's newRefreshToken
    bearer,          \* Authorization: Bearer of the request in flight
    chainReqs,       \* chain requests sent by the worker's current call
                     \* of getOptionsData (0 outside a call)
    exchReqs,        \* token exchanges requested by that call
    tokens,          \* tokens in the limiter's bucket
    slotAdmits,      \* admissions in each of the last SlotsPerPeriod slots
    ticks,           \* clock of the limiter, in slots
    issued,          \* number of the last pair the token endpoint issued
    jobInfo,         \* history, per ticker: state and records returned
    lastRefresh,     \* history: refresh token of the exchange whose answer
                     \* the worker stored last (0: none)
    gpc,             \* draft (part_000): where the getOptionsData goroutine
                     \* of each line of the file is: "none", "fetch",
                     \* "send", "done"
    batch,           \* draft: the options slice of each such goroutine
    exited           \* draft: log.Fatalf has ended the process

mainVars == <<mainPc, submitted, options, received, top, bottom>>
chanVars == <<jobs, closed, results>>
workerVars == <<wpc, stock, accessToken, refreshToken, newAccessToken,
                newRefreshToken, bearer, chainReqs, exchReqs>>
limiterVars == <<tokens, slotAdmits, ticks>>
histVars == <<issued, jobInfo, lastRefresh>>
envVars == <<stockTickers, chainOf, cancelled>>
draftVars == <<gpc, batch, exited>>
vars == <<envVars, draftVars, mainVars, chanVars, workerVars, limiterVars, histVars>>

\* ------------------------------------------------------------- helpers

Min(a, b) == IF a < b THEN a ELSE b

RECURSIVE ConcatAll(_)
ConcatAll(ss) == IF ss = <<>> THEN <<>> ELSE Head(ss) \o ConcatAll(Tail(ss))

RECURSIVE Orders(_)
\* Every order in which a range loop may visit the keys of a Go map.
Orders(S) ==
    IF S = {} THEN {<<>>}
    ELSE UNION {{<<x>> \o t : t \in Orders(S \ {x})} : x \in S}

RECURSIVE Combos(_)
Combos(ss) ==
    IF ss = <<>> THEN {<<>>}
    ELSE {a \o b : a \in Head(ss), b \in Combos(Tail(ss))}

RemoveAt(s, i) == SubSeq(s, 1, i - 1) \o SubSeq(s, i + 1, Len(s))

\* ------------------------------------------- responses of the chain API

\* An OptionContract: its Symbol and its Volatility (the other fields are
\* copied like Symbol).
Contract(sym, v) == [Symbol |-> sym, Volatility |-> v]

\* A decoded OptionsChain: Underlying.Last and the two maps, expiration ->
\* strike -> contracts.
Chain(last, calls, puts) ==
    [Underlying |-> [Last |-> last],
     callExpDateMap |-> calls,
     putExpDateMap |-> puts]

ChainEmpty == Chain(0, <<>>, <<>>)

\* A call leaf with two contracts and one whose first contract has
\* volatility 0; an empty put leaf and one with a single contract.
ChainTwo ==
    Chain(7,
          "e1" :> ("s1" :> <<Contract(11, 50), Contract(12, 99)>>
                   @@ "s2" :> <<Contract(13, 0)>>),
          "e1" :> ("s1" :> <<>> @@ "s2" :> <<Contract(14, 10)>>))

\* The bodies a 200 answer of the chain endpoint may carry.
Chains == {ChainEmpty, ChainTwo}

\* ------------------------------------------------------ getOptionsData

LastListed(s, u, contracts) ==
    [Symbol |-> s,
     LastStockPrice |-> u.Last,
     OptionSymbol |-> contracts[Len(contracts)].Symbol,
     Volatility |-> contracts[Len(contracts)].Volatility]

\* The Option built from contracts[0] (lines 368-413).
FirstListed(s, u, contracts) ==
    [Symbol |-> s,
     LastStockPrice |-> u.Last,
     OptionSymbol |-> contracts[1].Symbol,
     Volatility |-> contracts[1].Volatility]

KeepAll(option) == TRUE

\* if option.Volatility > 0 (line 414)
KeepOption(option) == option.Volatility > 0

\* One leaf of the map: the option of the first contract, appended if its
\* volatility is > 0.
LeafOptions(s, u, contracts) ==
    IF Len(contracts) > 0 /\ KeepOption(FirstListed(s, u, contracts))
    THEN <<FirstListed(s, u, contracts)>>
    ELSE <<>>

StrikesOptions(s, u, strikes) ==
    {ConcatAll([i \in 1..Len(o) |-> LeafOptions(s, u, strikes[o[i]])]) :
        o \in Orders(DOMAIN strikes)}

MapOptions(s, u, m) ==
    UNION {Combos([i \in 1..Len(o) |-> StrikesOptions(s, u, m[o[i]])]) :
        o \in Orders(DOMAIN m)}

\* The slices getOptionsData may return for a decoded chain: calls before
\* puts, the keys of each map in any order.
BuildOptions(s, chain) ==
    {a \o b : a \in MapOptions(s, chain.Underlying, chain.callExpDateMap),
              b \in MapOptions(s, chain.Underlying, chain.putExpDateMap)}

\* ------------------------------------------------------------ history

\* state: "pending" (not yet taken from jobs), "taken", "succeeded" (its
\* batch was sent on results), "failed" (abandoned, nothing sent).
NewJob == [state |-> "pending", returned |-> 0]

\* len(stockTickers)
NTickers == Len(stockTickers)

\* The draft of part_000 is not running.
DraftIdle ==
    /\ gpc = <<>>
    /\ batch = <<>>
    /\ exited = FALSE

\* The tickers of the file are distinct, so that the history kept per ticker
\* is the history of one job.
Init ==
    /\ DraftIdle
    /\ stockTickers = [i \in 1..NumTickers |-> i]
    /\ chainOf = [t \in 1..NumTickers |-> Chains]
    /\ cancelled = FALSE
    /\ mainPc = "submit"
    /\ submitted = 0
    /\ jobs = <<>>
    /\ closed = FALSE
    /\ results = <<>>
    /\ options = <<>>
    /\ received = 0
    /\ top = <<>>
    /\ bottom = <<>>
    /\ wpc = [w \in Workers |-> "range"]
    /\ stock = [w \in Workers |-> 0]
    /\ accessToken = [w \in Workers |-> InitialToken]
    /\ refreshToken = [w \in Workers |-> InitialToken]
    /\ newAccessToken = [w \in Workers |-> 0]
    /\ newRefreshToken = [w \in Workers |-> 0]
    /\ bearer = [w \in Workers |-> 0]
    /\ chainReqs = [w \in Workers |-> 0]
    /\ exchReqs = [w \in Workers |-> 0]
    /\ tokens = Burst
    /\ slotAdmits = [i \in 1..SlotsPerPeriod |-> 0]
    /\ ticks = 0
    /\ issued = InitialToken
    /\ jobInfo = [t \in 1..NumTickers |-> NewJob]
    /\ lastRefresh = [w \in Workers |-> 0]

\* ---------------------------------------------------------------- main

\* make(chan string, len(stockTickers)) (line 157)
JobsCap == NTickers

ResultsCapShort == NTickers - 1

\* make(chan []Option, len(stockTickers)) (line 158)
ResultsCap == NTickers

\* jobs <- stock (line 166): blocks while the channel is full.
MainSubmit ==
    /\ mainPc = "submit"
    /\ submitted < NTickers
    /\ Len(jobs) < JobsCap
    /\ jobs' = Append(jobs, stockTickers[submitted + 1])
    /\ submitted' = submitted + 1
    /\ UNCHANGED <<envVars, draftVars, mainPc, options, received, top, bottom,
                   closed, results, workerVars, limiterVars, histVars>>

\* close(jobs) (line 168)
MainClose ==
    /\ mainPc = "submit"
    /\ submitted = NTickers
    /\ closed' = TRUE
    /\ mainPc' = "collect"
    /\ UNCHANGED <<envVars, draftVars, submitted, options, received, top, bottom,
                   jobs, results, workerVars, limiterVars, histVars>>

OverwriteBatch(opts, b) == b

\* append(options, <-results...) (line 172)
AppendBatch(opts, b) == opts \o b

ReceiveShort == NTickers - 1

\* i < len(stockTickers) (line 171)
ReceiveBound == NTickers

\* One round of the receive loop (lines 171-173): blocks on an empty channel.
MainReceive ==
    /\ mainPc = "collect"
    /\ received < ReceiveBound
    /\ Len(results) > 0
    /\ options' = AppendBatch(options, Head(results))
    /\ results' = Tail(results)
    /\ received' = received + 1
    /\ UNCHANGED <<envVars, draftVars, mainPc, submitted, top, bottom, jobs, closed,
                   workerVars, limiterVars, histVars>>

LessAscending(a, b) == a.Volatility < b.Volatility

\* The less function passed to sort.Slice (line 176).
Less(a, b) == a.Volatility > b.Volatility

RECURSIVE SortSlice(_)
\* sort.Slice: the arrangements of s in which no element is before one that
\* is less than it (sort.Slice does not promise an order of elements neither
\* of which is less than the other).
SortSlice(s) ==
    IF s = <<>> THEN {<<>>}
    ELSE UNION {{<<s[i]>> \o t : t \in SortSlice(RemoveAt(s, i))} :
            i \in {j \in DOMAIN s :
                     \A k \in DOMAIN s : ~Less(s[k], s[j])}}

\* The receive loop ends and the slice is sorted (lines 171, 175-177).
MainSort ==
    /\ mainPc = "collect"
    /\ received = ReceiveBound
    /\ options' \in SortSlice(options)
    /\ mainPc' = "print"
    /\ UNCHANGED <<envVars, draftVars, submitted, received, top, bottom, chanVars,
                   workerVars, limiterVars, histVars>>

\* The two print loops (lines 179-206).  With fewer than K records,
\* options[:40] panics when cap(options) < 40; when the capacity left by
\* append is at least 40 the slice expression succeeds, the loop prints the
\* len(options) records and panics in ExpirationDate[:10] of the first
\* zero-valued element behind them.  With K records or more, the second
\* loop reads options[len(options)-1-i] for i < 40.
MainPrint ==
    /\ mainPc = "print"
    /\ IF Len(options) < K
       THEN /\ mainPc' = "panic"
            /\ top' \in (IF options = <<>> THEN {<<>>} ELSE {<<>>, options})
            /\ bottom' = <<>>
       ELSE /\ mainPc' = "done"
            /\ top' = SubSeq(options, 1, K)
            /\ bottom' = [i \in 1..K |-> options[Len(options) - i + 1]]
    /\ UNCHANGED <<envVars, draftVars, submitted, options, received, chanVars,
                   workerVars, limiterVars, histVars>>

\* -------------------------------------------------------------- limiter

\* Time passes by one slot: the bucket gains RatePerSecond / SlotsPerPeriod
\* tokens, up to Burst.
Tick ==
    /\ ticks < MaxTicks
    /\ ticks' = ticks + 1
    /\ tokens' = Min(Burst, tokens + (RatePerSecond \div SlotsPerPeriod))
    /\ slotAdmits' = Tail(slotAdmits) \o <<0>>
    /\ UNCHANGED <<envVars, draftVars, mainVars, chanVars, workerVars, histVars>>

\* --------------------------------------------------------------- worker

ReturnAfterAbandon == "exit"

\* Where a worker goes after log.Printf and continue (lines 279, 285).
AfterAbandon == "range"

StaleBearer(w, newAccess) == accessToken[w]

\* The Authorization header of the retried request (line 333).
RetryBearer(w, newAccess) == newAccess

Peek(q) == q

\* What a receive leaves in the channel's buffer.
Dequeue(q) == Tail(q)

RangeNeverEnds(q, c) == FALSE

\* A range over a channel ends when the channel is closed and drained.
RangeEnds(q, c) == q = <<>> /\ c

\* for stock := range jobs (line 275): a value is received.
WorkerTake(w) ==
    /\ wpc[w] = "range"
    /\ Len(jobs) > 0
    /\ stock' = [stock EXCEPT ![w] = Head(jobs)]
    /\ jobs' = Dequeue(jobs)
    /\ wpc' = [wpc EXCEPT ![w] = "wait"]
    /\ jobInfo' = [jobInfo EXCEPT ![Head(jobs)].state = "taken"]
    /\ UNCHANGED <<envVars, draftVars, mainVars, closed, results, accessToken,
                   refreshToken, newAccessToken, newRefreshToken, bearer,
                   chainReqs, exchReqs, limiterVars, issued, lastRefresh>>

\* for stock := range jobs: the channel is closed and drained.
WorkerExit(w) ==
    /\ wpc[w] = "range"
    /\ RangeEnds(jobs, closed)
    /\ wpc' = [wpc EXCEPT ![w] = "exit"]
    /\ UNCHANGED <<envVars, draftVars, mainVars, chanVars, stock, accessToken,
                   refreshToken, newAccessToken, newRefreshToken, bearer,
                   chainReqs, exchReqs, limiterVars, histVars>>

\* limiter.Wait returns nil (line 276) and getOptionsData sends the chain
\* request with the worker's access token (lines 282, 316-319).  With
\* context.Background() and n = 1 <= Burst, Wait has no error return.
LimiterWait(w) ==
    /\ wpc[w] = "wait"
    /\ tokens >= 1
    /\ tokens' = tokens - 1
    /\ slotAdmits' = [slotAdmits EXCEPT ![SlotsPerPeriod] = @ + 1]
    /\ bearer' = [bearer EXCEPT ![w] = accessToken[w]]
    /\ chainReqs' = [chainReqs EXCEPT ![w] = @ + 1]
    /\ wpc' = [wpc EXCEPT ![w] = "fetch"]
    /\ UNCHANGED <<envVars, draftVars, mainVars, chanVars, stock, accessToken,
                   refreshToken, newAccessToken, newRefreshToken, exchReqs,
                   ticks, histVars>>

\* getOptionsData returns an error and the worker continues (lines 283-286):
\* nothing is sent on results.
Abandon(w) ==
    /\ jobInfo' = [jobInfo EXCEPT ![stock[w]].state = "failed"]
    /\ wpc' = [wpc EXCEPT ![w] = AfterAbandon]
    /\ stock' = [stock EXCEPT ![w] = 0]
    /\ newAccessToken' = [newAccessToken EXCEPT ![w] = 0]
    /\ newRefreshToken' = [newRefreshToken EXCEPT ![w] = 0]
    /\ bearer' = [bearer EXCEPT ![w] = 0]
    /\ chainReqs' = [chainReqs EXCEPT ![w] = 0]
    /\ exchReqs' = [exchReqs EXCEPT ![w] = 0]
    /\ UNCHANGED <<envVars, draftVars, mainVars, chanVars, accessToken,
                   refreshToken, limiterVars, issued, lastRefresh>>

\* getOptionsData returned without error: results <- options (line 296),
\* which blocks while the channel is full.
SendResult(w, opts) ==
    /\ Len(results) < ResultsCap
    /\ results' = Append(results, opts)
    /\ jobInfo' = [jobInfo EXCEPT ![stock[w]].state = "succeeded",
                                  ![stock[w]].returned = Len(opts)]
    /\ stock' = [stock EXCEPT ![w] = 0]
    /\ bearer' = [bearer EXCEPT ![w] = 0]
    /\ chainReqs' = [chainReqs EXCEPT ![w] = 0]
    /\ exchReqs' = [exchReqs EXCEPT ![w] = 0]
    /\ wpc' = [wpc EXCEPT ![w] = "range"]

\* The first request is answered 200 with a chain that decodes
\* (lines 350-421); the tokens come back as they were passed (lines 289-294
\* store them again) and the batch is sent.
FetchOK(w) ==
    /\ wpc[w] = "fetch"
    /\ \E c \in chainOf[stock[w]] : \E o \in BuildOptions(stock[w], c) :
          SendResult(w, o)
    /\ UNCHANGED <<envVars, draftVars, mainVars, jobs, closed, accessToken,
                   refreshToken, newAccessToken, newRefreshToken, limiterVars,
                   issued, lastRefresh>>

\* The first request is answered 401: refreshTokens posts the worker's
\* refresh token (lines 325-327, 427-442).
FetchUnauthorized(w) ==
    /\ wpc[w] = "fetch"
    /\ exchReqs' = [exchReqs EXCEPT ![w] = @ + 1]
    /\ bearer' = [bearer EXCEPT ![w] = 0]
    /\ wpc' = [wpc EXCEPT ![w] = "refresh"]
    /\ UNCHANGED <<envVars, draftVars, mainVars, chanVars, stock, accessToken,
                   refreshToken, newAccessToken, newRefreshToken, chainReqs,
                   limiterVars, issued, jobInfo, lastRefresh>>

\* The first request fails: transport error, a status other than 200 and
\* 401, or a body that cannot be read or decoded (lines 320-322, 346-359).
FetchFailed(w) ==
    /\ wpc[w] = "fetch"
    /\ Abandon(w)

\* The token endpoint answers 200 with a body that decodes; either field
\* may be absent (empty string).  The retry is sent at once with the new
\* access token (lines 453-463, 333-334).
RefreshOK(w) ==
    /\ wpc[w] = "refresh"
    /\ issued' = issued + 1
    /\ \E a \in {0, issued + 1}, r \in {0, issued + 1} :
          /\ newAccessToken' = [newAccessToken EXCEPT ![w] = a]
          /\ newRefreshToken' = [newRefreshToken EXCEPT ![w] = r]
          /\ bearer' = [bearer EXCEPT ![w] = RetryBearer(w, a)]
    /\ chainReqs' = [chainReqs EXCEPT ![w] = @ + 1]
    /\ wpc' = [wpc EXCEPT ![w] = "retry"]
    /\ UNCHANGED <<envVars, draftVars, mainVars, chanVars, stock, accessToken,
                   refreshToken, exchReqs, limiterVars, jobInfo, lastRefresh>>

IgnoreRefreshError(w) ==
    /\ bearer' = [bearer EXCEPT ![w] = accessToken[w]]
    /\ chainReqs' = [chainReqs EXCEPT ![w] = @ + 1]
    /\ wpc' = [wpc EXCEPT ![w] = "retry"]
    /\ UNCHANGED <<envVars, draftVars, mainVars, chanVars, stock, accessToken,
                   refreshToken, newAccessToken, newRefreshToken, exchReqs,
                   limiterVars, histVars>>

\* refreshTokens returned an error: getOptionsData returns it and the
\* worker continues (lines 328-330, 283-286).
RefreshErrorReturn(w) == Abandon(w)

\* The token endpoint fails: transport error, status other than 200, or a
\* body that does not decode (lines 443-461, 328-330).
RefreshFailed(w) ==
    /\ wpc[w] = "refresh"
    /\ RefreshErrorReturn(w)

Everyone(w) == Workers

\* The goroutines whose accessToken and refreshToken an assignment by worker
\* w changes: the two are parameters of worker, passed by value (lines 162,
\* 274).
Owners(w) == {w}

\* The retry is answered 200 with a chain that decodes: getOptionsData
\* returns the new pair (lines 344-345, 421), the worker stores each token
\* that is not empty (lines 289-294) and sends the batch.
RetryOK(w) ==
    /\ wpc[w] = "retry"
    /\ \E c \in chainOf[stock[w]] : \E o \in BuildOptions(stock[w], c) :
          SendResult(w, o)
    /\ accessToken' = [v \in Workers |->
          IF v \in Owners(w) /\ newAccessToken[w] # 0
          THEN newAccessToken[w] ELSE accessToken[v]]
    /\ refreshToken' = [v \in Workers |->
          IF v \in Owners(w) /\ newRefreshToken[w] # 0
          THEN newRefreshToken[w] ELSE refreshToken[v]]
    /\ lastRefresh' = [lastRefresh EXCEPT ![w] = refreshToken[w]]
    /\ newAccessToken' = [newAccessToken EXCEPT ![w] = 0]
    /\ newRefreshToken' = [newRefreshToken EXCEPT ![w] = 0]
    /\ UNCHANGED <<envVars, draftVars, mainVars, jobs, closed, limiterVars, issued>>

\* The retry fails: transport error or a status other than 200
\* (lines 335-342), or a body that cannot be read or decoded.
RetryFailed(w) ==
    /\ wpc[w] = "retry"
    /\ Abandon(w)

WorkerStep(w) ==
    \/ WorkerTake(w)
    \/ WorkerExit(w)
    \/ LimiterWait(w)
    \/ FetchOK(w)
    \/ FetchUnauthorized(w)
    \/ FetchFailed(w)
    \/ RefreshOK(w)
    \/ RefreshFailed(w)
    \/ RetryOK(w)
    \/ RetryFailed(w)

Next ==
    \/ MainSubmit
    \/ MainClose
    \/ MainReceive
    \/ MainSort
    \/ MainPrint
    \/ \E w \in Workers : WorkerStep(w)

Spec == Init /\ [][Next]_vars

\* Every goroutine that can take a step eventually does, and every HTTP call
\* and limiter wait returns.
Fairness ==
    /\ WF_vars(MainSubmit)
    /\ WF_vars(MainClose)
    /\ WF_vars(MainReceive)
    /\ WF_vars(MainSort)
    /\ WF_vars(MainPrint)
    /\ \A w \in Workers : WF_vars(WorkerStep(w))

FairSpec == Init /\ [][Next]_vars /\ Fairness

\* ------------------------------------------------ the limiter under load

\* The state after main has read a file of NumLimTickers lines, all naming
\* the same ticker, submitted them and closed the channel, before any worker
\* has run.
InitLimiter ==
    /\ DraftIdle
    /\ stockTickers = [i \in 1..NumLimTickers |-> 1]
    /\ chainOf = [t \in {1} |-> Chains]
    /\ cancelled = FALSE
    /\ mainPc = "collect"
    /\ submitted = NumLimTickers
    /\ jobs = [i \in 1..NumLimTickers |-> 1]
    /\ closed = TRUE
    /\ results = <<>>
    /\ options = <<>>
    /\ received = 0
    /\ top = <<>>
    /\ bottom = <<>>
    /\ wpc = [w \in Workers |-> "range"]
    /\ stock = [w \in Workers |-> 0]
    /\ accessToken = [w \in Workers |-> InitialToken]
    /\ refreshToken = [w \in Workers |-> InitialToken]
    /\ newAccessToken = [w \in Workers |-> 0]
    /\ newRefreshToken = [w \in Workers |-> 0]
    /\ bearer = [w \in Workers |-> 0]
    /\ chainReqs = [w \in Workers |-> 0]
    /\ exchReqs = [w \in Workers |-> 0]
    /\ tokens = Burst
    /\ slotAdmits = [i \in 1..SlotsPerPeriod |-> 0]
    /\ ticks = 0
    /\ issued = InitialToken
    /\ jobInfo = [t \in {1} |-> NewJob]
    /\ lastRefresh = [w \in Workers |-> 0]

\* The runs in which the chain endpoint fails every request, with the
\* limiter's clock.
NextLimiter ==
    \/ Tick
    \/ \E w \in Workers :
          \/ WorkerTake(w)
          \/ WorkerExit(w)
          \/ LimiterWait(w)
          \/ FetchFailed(w)

SpecLimiter == InitLimiter /\ [][NextLimiter]_vars

\* ------------------------------------------------- a request to stop

\* A deadline passes or the caller asks the run to stop.  The program makes
\* no context that could carry the request: limiter.Wait is given
\* context.Background() (line 276), which is never done, and neither main
\* nor worker reads anything else, so that no variable of the program
\* changes.
Cancel ==
    /\ ~cancelled
    /\ cancelled' = TRUE
    /\ UNCHANGED <<stockTickers, chainOf, draftVars, mainVars, chanVars,
                   workerVars, limiterVars, histVars>>

NextCancel == Next \/ Cancel

SpecCancel == Init /\ [][NextCancel]_vars

\* ------------------------------------------- states after construction

\* main before the submit loop, with no worker started on a job.
Started ==
    /\ DraftIdle
    /\ cancelled = FALSE
    /\ mainPc = "submit"
    /\ submitted = 0
    /\ jobs = <<>>
    /\ closed = FALSE
    /\ results = <<>>
    /\ options = <<>>
    /\ received = 0
    /\ top = <<>>
    /\ bottom = <<>>
    /\ wpc = [w \in Workers |-> "range"]
    /\ stock = [w \in Workers |-> 0]
    /\ accessToken = [w \in Workers |-> InitialToken]
    /\ refreshToken = [w \in Workers |-> InitialToken]
    /\ newAccessToken = [w \in Workers |-> 0]
    /\ newRefreshToken = [w \in Workers |-> 0]
    /\ bearer = [w \in Workers |-> 0]
    /\ chainReqs = [w \in Workers |-> 0]
    /\ exchReqs = [w \in Workers |-> 0]
    /\ tokens = Burst
    /\ slotAdmits = [i \in 1..SlotsPerPeriod |-> 0]
    /\ ticks = 0
    /\ issued = InitialToken
    /\ lastRefresh = [w \in Workers |-> 0]

\* ------------------------------------------------- two tickers, five records

\* The chain of the first ticker: records of volatility 10, 50 and 30.
ChainFirst ==
    Chain(7,
          "e1" :> ("s1" :> <<Contract(11, 10)>> @@ "s2" :> <<Contract(12, 50)>>),
          "e1" :> ("s1" :> <<Contract(13, 30)>>))

\* The chain of the second ticker: records of volatility 90 and 5.
ChainSecond ==
    Chain(9,
          "e1" :> ("s1" :> <<Contract(21, 90)>>),
          "e1" :> ("s1" :> <<Contract(22, 5)>>))

\* A file of two tickers whose chain requests, when answered 200, carry
\* ChainFirst and ChainSecond.
InitExample ==
    /\ stockTickers = <<1, 2>>
    /\ chainOf = <<{ChainFirst}, {ChainSecond}>>
    /\ jobInfo = [t \in {1, 2} |-> NewJob]
    /\ Started

SpecExample == InitExample /\ [][Next]_vars

\* --------------------------------------------- one ticker, any small chain

\* The contents of the k-th leaf of a chain: none, one or two contracts, the
\* first with a volatility above, at or below 0.
LeafShapes(k) ==
    {<<>>,
     <<Contract(10 * k + 1, 5)>>,
     <<Contract(10 * k + 1, 0)>>,
     <<Contract(10 * k + 1, 0 - 1), Contract(10 * k + 2, 9)>>,
     <<Contract(10 * k + 1, 5 + k), Contract(10 * k + 2, 9)>>}

\* Chains of two call leaves and one put leaf.
BuildChains ==
    {Chain(7, "e1" :> ("s1" :> a @@ "s2" :> b), "e2" :> ("s1" :> c)) :
        a \in LeafShapes(1), b \in LeafShapes(2), c \in LeafShapes(3)}

\* A file of one ticker; the chain endpoint has one body for it.
InitBuild ==
    /\ stockTickers = <<1>>
    /\ chainOf \in {[t \in {1} |-> {c}] : c \in BuildChains}
    /\ jobInfo = [t \in {1} |-> NewJob]
    /\ Started

SpecBuild == InitBuild /\ [][Next]_vars

\* ------------------------------------------------- ranking K records or so

\* The volatility of the i-th of n contracts: distinct for distinct i, but
\* for the last contract, which repeats the first's when tie holds.
RankVol(i, n, m, tie) ==
    IF tie /\ i = n THEN (m % 43) + 1 ELSE ((i * m) % 43) + 1

\* The strikes lo..hi of a call map, one contract each.
RankStrikes(lo, hi, n, m, tie) ==
    [i \in lo..hi |-> <<Contract(i, RankVol(i, n, m, tie))>>]

RankChain(lo, hi, n, m, tie) ==
    Chain(7, "e1" :> RankStrikes(lo, hi, n, m, tie), <<>>)

\* The slice getOptionsData returns for ticker s and that chain when the
\* range loop visits the strikes in increasing order.
RankBatch(s, lo, hi, n, m, tie) ==
    [j \in 1..(hi - lo + 1) |->
        FirstListed(s, [Last |-> 7],
                    RankStrikes(lo, hi, n, m, tie)[lo + j - 1])]

\* The state in which main leaves the receive loop after a run without
\* failures: two tickers, n records in all, the batches received in either
\* order, every worker gone.
InitRank ==
    \E n \in (K - 1)..(K + MaxExtra), m \in 1..MaxSeed, tie \in BOOLEAN,
       firstFirst \in BOOLEAN :
        LET h == n \div 2
            b1 == RankBatch(1, 1, h, n, m, tie)
            b2 == RankBatch(2, h + 1, n, n, m, tie)
        IN  /\ stockTickers = <<1, 2>>
            /\ chainOf = <<{RankChain(1, h, n, m, tie)},
                           {RankChain(h + 1, n, n, m, tie)}>>
            /\ cancelled = FALSE
            /\ DraftIdle
            /\ mainPc = "collect"
            /\ submitted = 2
            /\ jobs = <<>>
            /\ closed = TRUE
            /\ results = <<>>
            /\ options = IF firstFirst THEN b1 \o b2 ELSE b2 \o b1
            /\ received = 2
            /\ top = <<>>
            /\ bottom = <<>>
            /\ wpc = [w \in Workers |-> "exit"]
            /\ stock = [w \in Workers |-> 0]
            /\ accessToken = [w \in Workers |-> InitialToken]
            /\ refreshToken = [w \in Workers |-> InitialToken]
            /\ newAccessToken = [w \in Workers |-> 0]
            /\ newRefreshToken = [w \in Workers |-> 0]
            /\ bearer = [w \in Workers |-> 0]
            /\ chainReqs = [w \in Workers |-> 0]
            /\ exchReqs = [w \in Workers |-> 0]
            /\ tokens = Burst - 2
            /\ slotAdmits = [i \in 1..SlotsPerPeriod |->
                                IF i = SlotsPerPeriod THEN 2 ELSE 0]
            /\ ticks = 0
            /\ issued = InitialToken
            /\ jobInfo = <<[state |-> "succeeded", returned |-> h],
                           [state |-> "succeeded", returned |-> n - h]>>
            /\ lastRefresh = [w \in Workers |-> 0]

NextRank == MainSort \/ MainPrint

SpecRank == InitRank /\ [][NextRank]_vars

\* ------------------------------------------- an expired access token

\* The runs in which every first chain request is answered 401.
NextExpired ==
    \/ MainSubmit
    \/ MainClose
    \/ MainReceive
    \/ MainSort
    \/ MainPrint
    \/ \E w \in Workers :
          \/ WorkerTake(w)
          \/ WorkerExit(w)
          \/ LimiterWait(w)
          \/ FetchUnauthorized(w)
          \/ RefreshOK(w)
          \/ RefreshFailed(w)
          \/ RetryOK(w)
          \/ RetryFailed(w)

SpecExpired == Init /\ [][NextExpired]_vars

\* ------------------------------------ the draft with a goroutine per ticker

\* The draft of src/unnamed/part_000: main starts one getOptionsData
\* goroutine per line of the file, each sends its slice on the unbuffered
\* channel c or ends the process with log.Fatalf, and main receives
\* len(stockTickers) slices, sorts them and prints options[0].  The
\* goroutines are numbered by the line of their ticker.

\* One leaf of CallExpDateMap (part_000 lines 210-255): the option of the
\* first contract, appended whatever its volatility.  Underlying's fields
\* are unexported there, so json.Unmarshal leaves them 0.
DraftLeafOptions(s, contracts) ==
    IF Len(contracts) > 0
    THEN <<[Symbol |-> s,
            LastStockPrice |-> 0,
            OptionSymbol |-> contracts[1].Symbol,
            Volatility |-> contracts[1].Volatility]>>
    ELSE <<>>

DraftStrikesOptions(s, strikes) ==
    {ConcatAll([i \in 1..Len(o) |-> DraftLeafOptions(s, strikes[o[i]])]) :
        o \in Orders(DOMAIN strikes)}

\* The slices the draft may build for a decoded chain: the call map only,
\* its keys in any order (part_000 lines 206-257).
DraftBuildOptions(s, chain) ==
    UNION {Combos([i \in 1..Len(o) |->
                      DraftStrikesOptions(s, chain.callExpDateMap[o[i]])]) :
             o \in Orders(DOMAIN chain.callExpDateMap)}

\* The bodies a 200 answer may carry in the draft: no leaf, one leaf or two
\* leaves of calls.
DraftChains == Chains \cup {ChainFirst, ChainSecond}

\* main of the draft before its first go statement.
InitDraft ==
    /\ stockTickers = [i \in 1..NumTickers |-> i]
    /\ chainOf = [t \in 1..NumTickers |-> DraftChains]
    /\ cancelled = FALSE
    /\ gpc = [i \in 1..NumTickers |-> "none"]
    /\ batch = [i \in 1..NumTickers |-> <<>>]
    /\ exited = FALSE
    /\ mainPc = "spawn"
    /\ submitted = 0
    /\ jobs = <<>>
    /\ closed = FALSE
    /\ results = <<>>
    /\ options = <<>>
    /\ received = 0
    /\ top = <<>>
    /\ bottom = <<>>
    /\ wpc = [w \in Workers |-> "exit"]
    /\ stock = [w \in Workers |-> 0]
    /\ accessToken = [w \in Workers |-> InitialToken]
    /\ refreshToken = [w \in Workers |-> InitialToken]
    /\ newAccessToken = [w \in Workers |-> 0]
    /\ newRefreshToken = [w \in Workers |-> 0]
    /\ bearer = [w \in Workers |-> 0]
    /\ chainReqs = [w \in Workers |-> 0]
    /\ exchReqs = [w \in Workers |-> 0]
    /\ tokens = Burst
    /\ slotAdmits = [i \in 1..SlotsPerPeriod |-> 0]
    /\ ticks = 0
    /\ issued = InitialToken
    /\ jobInfo = [t \in 1..NumTickers |-> NewJob]
    /\ lastRefresh = [w \in Workers |-> 0]

\* What the draft changes of main's variables is named in each action; the
\* pool, the limiter and the credentials do not exist in it.
DraftFrame ==
    UNCHANGED <<envVars, chanVars, workerVars, limiterVars, histVars, bottom>>

\* go getOptionsData(stock, apiKey, c) (part_000 lines 147-149); after the
\* last one main is at its receive loop.  submitted counts the goroutines
\* started.
DraftSpawn ==
    /\ ~exited
    /\ mainPc = "spawn"
    /\ submitted < NTickers
    /\ submitted' = submitted + 1
    /\ gpc' = [gpc EXCEPT ![submitted + 1] = "fetch"]
    /\ mainPc' = IF submitted + 1 = NTickers THEN "collect" ELSE "spawn"
    /\ UNCHANGED <<batch, exited, options, received, top>>
    /\ DraftFrame

ReturnSilently(i) ==
    /\ gpc' = [gpc EXCEPT ![i] = "done"]
    /\ UNCHANGED exited

\* log.Fatalf (part_000 lines 179, 187, 193, 197, 203): os.Exit(1) ends
\* the process, main and every goroutine with it.
LogFatalf(i) ==
    /\ exited' = TRUE
    /\ UNCHANGED gpc

\* The request is answered 200 with a body that decodes: the goroutine has
\* built its slice and is at c <- options (part_000 lines 185-258).
DraftFetchOK(i) ==
    /\ ~exited
    /\ gpc[i] = "fetch"
    /\ \E c \in chainOf[stockTickers[i]] :
          \E o \in DraftBuildOptions(stockTickers[i], c) :
              batch' = [batch EXCEPT ![i] = o]
    /\ gpc' = [gpc EXCEPT ![i] = "send"]
    /\ UNCHANGED <<exited, mainPc, submitted, options, received, top>>
    /\ DraftFrame

\* The request cannot be made or sent, the body cannot be read, the status
\* is not 200 or the body does not decode (part_000 lines 177-204).
DraftFetchFatal(i) ==
    /\ ~exited
    /\ gpc[i] = "fetch"
    /\ LogFatalf(i)
    /\ UNCHANGED <<batch, mainPc, submitted, options, received, top>>
    /\ DraftFrame

\* c <- options meets contracts := <-c (part_000 lines 258, 152-155): the
\* channel is unbuffered, so the send and the receive are one step.
DraftReceive(i) ==
    /\ ~exited
    /\ gpc[i] = "send"
    /\ mainPc = "collect"
    /\ received < NTickers
    /\ options' = AppendBatch(options, batch[i])
    /\ received' = received + 1
    /\ gpc' = [gpc EXCEPT ![i] = "done"]
    /\ batch' = [batch EXCEPT ![i] = <<>>]
    /\ UNCHANGED <<exited, mainPc, submitted, top>>
    /\ DraftFrame

\* The receive loop ends and the slice is sorted (part_000 lines 152,
\* 158-160).
DraftSort ==
    /\ ~exited
    /\ mainPc = "collect"
    /\ received = NTickers
    /\ options' \in SortSlice(options)
    /\ mainPc' = "print"
    /\ UNCHANGED <<draftVars, submitted, received, top>>
    /\ DraftFrame

\* fmt.Printf of options[0] (part_000 line 162), which panics on an empty
\* slice.
DraftPrint ==
    /\ ~exited
    /\ mainPc = "print"
    /\ IF options = <<>>
       THEN mainPc' = "panic" /\ top' = <<>>
       ELSE mainPc' = "done" /\ top' = <<options[1]>>
    /\ UNCHANGED <<draftVars, submitted, options, received>>
    /\ DraftFrame

DraftStep(i) ==
    \/ DraftFetchOK(i)
    \/ DraftFetchFatal(i)
    \/ DraftReceive(i)

NextDraft ==
    \/ DraftSpawn
    \/ DraftSort
    \/ DraftPrint
    \/ \E i \in 1..NumTickers : DraftStep(i)

SpecDraft == InitDraft /\ [][NextDraft]_vars

\* main and every goroutine that can take a step eventually do, and every
\* HTTP call returns.
FairnessDraft ==
    /\ WF_vars(DraftSpawn)
    /\ WF_vars(DraftSort)
    /\ WF_vars(DraftPrint)
    /\ WF_vars(\E i \in 1..NumTickers : DraftReceive(i))
    /\ \A i \in 1..NumTickers :
          WF_vars(DraftFetchOK(i) \/ DraftFetchFatal(i))

FairSpecDraft == InitDraft /\ [][NextDraft]_vars /\ FairnessDraft

\* ---------------------------------------------------------------- claims

AllWorkersExited == \A w \in Workers : wpc[w] = "exit"

Terminal(t) == jobInfo[t].state \in {"succeeded", "failed"}

AllTerminal == \A t \in DOMAIN jobInfo : Terminal(t)

\* Number of records of ticker t in the slice opts.
CountOf(opts, t) == Cardinality({i \in DOMAIN opts : opts[i].Symbol = t})

RECURSIVE SumSeq(_)
SumSeq(q) == IF q = <<>> THEN 0 ELSE Head(q) + SumSeq(Tail(q))

Max(S) == CHOOSE x \in S : \A y \in S : y <= x

\* The newest credential pair stored by any worker.
NewestRefresh == Max({refreshToken[v] : v \in Workers})

NewestAccess == Max({accessToken[v] : v \in Workers})

\* C1: single-flight refresh.  Two workers that received 401 while holding
\* the same refresh token never both have a token exchange of their own
\* under way: one exchange is made for one stale refresh token.
C1_SingleFlight ==
    \A w1, w2 \in Workers :
        (w1 # w2 /\ wpc[w1] = "refresh" /\ wpc[w2] = "refresh")
            => refreshToken[w1] # refreshToken[w2]

\* C2: partial-failure isolation of the run.  main is never left in its
\* receive loop, short of len(stockTickers) batches, with the results
\* channel empty and every worker gone: the run always gets to ranking.
C2_RunCompletes ==
    ~(/\ mainPc = "collect"
      /\ received < NTickers
      /\ results = <<>>
      /\ AllWorkersExited)

\* Every worker holds a complete pair: the two tokens of one answer.
PairsComplete == \A v \in Workers : accessToken[v] = refreshToken[v]

\* The worker holds a pair that it stored from the answer of a token
\* exchange.
StoredPair(w) == lastRefresh[w] # 0 /\ refreshToken[w] # lastRefresh[w]

\* C3: convergence after refresh.  Workers that stored the answer of an
\* exchange of the same stale refresh token hold the same pair (stated for
\* complete pairs), and every fetch a worker starts carries the newest
\* access token known.
C3_Convergence ==
    /\ [](\A w1, w2 \in Workers :
            (/\ PairsComplete
             /\ StoredPair(w1)
             /\ StoredPair(w2)
             /\ lastRefresh[w1] = lastRefresh[w2])
                => /\ accessToken[w1] = accessToken[w2]
                   /\ refreshToken[w1] = refreshToken[w2])
    /\ [][\A w \in Workers :
            (PairsComplete /\ wpc[w] = "wait" /\ wpc'[w] = "fetch")
                => bearer'[w] = NewestAccess]_vars

\* C4: the selections never index out of range.  main never panics in the
\* print loops, and when it is done both selections hold min(K, n) records.
C4_SelectionClamped ==
    /\ mainPc # "panic"
    /\ mainPc = "done" =>
          /\ Len(top) = Min(K, Len(options))
          /\ Len(bottom) = Min(K, Len(options))

\* The steps of one job: Pending -> RateLimited -> Fetching ->
\* {terminal | AuthRetry -> Fetching(once) -> terminal}.
C5_JobStep(w) ==
    \/ wpc'[w] = wpc[w]
    \/ wpc[w] = "range" /\ wpc'[w] \in {"wait", "exit"}
    \/ wpc[w] = "wait" /\ wpc'[w] = "fetch"
    \/ wpc[w] = "fetch" /\ wpc'[w] \in {"refresh", "range"}
    \/ wpc[w] = "refresh" /\ wpc'[w] \in {"retry", "range"}
    \/ wpc[w] = "retry" /\ wpc'[w] = "range"

\* C5: retry-once state machine.  A job sends at most two chain requests and
\* at most one token exchange; the second chain request follows the one
\* exchange and carries the access token of its answer; any answer to the
\* retry ends the job, and a job that failed has contributed no record.
C5_RetryOnce ==
    /\ [](\A w \in Workers :
            /\ chainReqs[w] <= 2
            /\ exchReqs[w] <= 1
            /\ wpc[w] = "fetch" => (chainReqs[w] = 1 /\ exchReqs[w] = 0)
            /\ wpc[w] = "refresh" => (chainReqs[w] = 1 /\ exchReqs[w] = 1)
            /\ wpc[w] = "retry" =>
                  /\ chainReqs[w] = 2
                  /\ exchReqs[w] = 1
                  /\ bearer[w] = newAccessToken[w])
    /\ [](\A t \in DOMAIN jobInfo :
            jobInfo[t].state = "failed" =>
                /\ jobInfo[t].returned = 0
                /\ CountOf(options, t) = 0
                /\ \A i \in DOMAIN results : CountOf(results[i], t) = 0)
    /\ [][\A w \in Workers : C5_JobStep(w)]_vars

\* A worker retries with a fresh access token and the retry fails.
C5_Witness ==
    \E w \in Workers, t \in DOMAIN jobInfo :
        /\ wpc[w] = "retry"
        /\ bearer[w] > InitialToken
        /\ jobInfo[t].state = "failed"

\* C6: rate-limiter window bound.  The admissions of the last refill
\* period (SlotsPerPeriod slots of the clock) never exceed Burst.
C6_WindowBound == SumSeq(slotAdmits) <= Burst

\* C7: sibling isolation.  Once a job has been abandoned, every ticker of
\* the file still reaches a terminal state, and a worker leaves its loop
\* only when the jobs channel is closed and empty.
C7_SiblingIsolation ==
    /\ (\E t \in DOMAIN jobInfo : jobInfo[t].state = "failed")
          ~> AllTerminal
    /\ [][\A w \in Workers :
            (wpc[w] # "exit" /\ wpc'[w] = "exit")
                => (jobs = <<>> /\ closed)]_vars

\* The first ticker was abandoned and a later one succeeded.
C7_Witness ==
    /\ AllTerminal
    /\ jobInfo[1].state = "failed"
    /\ \E t \in DOMAIN jobInfo : jobInfo[t].state = "succeeded"

\* C8: compare-and-swap update.  A worker stores the answer of its token
\* exchange only if the refresh token it sent is still the newest one
\* stored in the program (stated for complete pairs).
C8_CompareAndSwap ==
    [][\A w \in Workers :
         (/\ PairsComplete
          /\ PairsComplete'
          /\ wpc[w] = "retry"
          /\ refreshToken'[w] # refreshToken[w])
            => refreshToken[w] = NewestRefresh]_vars

\* C9: the pair is never half-updated.  The access token and the refresh
\* token a worker holds carry the same number: both are of the initial pair
\* or both of one answer of the token endpoint.
C9_PairNeverMixed ==
    \A w \in Workers : accessToken[w] = refreshToken[w]

\* C10: record conservation.  In every state, and so when main ranks, the
\* records of a ticker in main's slice and in the results channel are the
\* records its job returned if it succeeded, and none otherwise.
C10_Conservation ==
    /\ \A t \in DOMAIN jobInfo :
          CountOf(options, t)
            + SumSeq([i \in DOMAIN results |-> CountOf(results[i], t)])
          = IF jobInfo[t].state = "succeeded" THEN jobInfo[t].returned ELSE 0
    /\ mainPc \in {"print", "done", "panic"} =>
          Len(options) = SumSeq([t \in DOMAIN jobInfo |->
              IF jobInfo[t].state = "succeeded"
              THEN jobInfo[t].returned ELSE 0])

\* main is about to rank the records of a job that returned two and of a
\* job that returned none.
C10_Witness ==
    /\ mainPc = "print"
    /\ Len(options) = 2
    /\ \E t \in DOMAIN jobInfo : jobInfo[t].returned = 0

\* C11: completion barrier.  When main ranks, every ticker of the file has
\* been submitted and taken, its job is Succeeded or Failed, and no worker
\* is waiting on the limiter or fetching.
C11_CompletionBarrier ==
    mainPc \in {"print", "done", "panic"} =>
        /\ submitted = NTickers
        /\ jobs = <<>>
        /\ AllTerminal
        /\ \A w \in Workers : stock[w] = 0 /\ wpc[w] \in {"range", "exit"}

\* main ranks while a worker has not yet seen the closed channel.
C11_Witness ==
    /\ mainPc = "print"
    /\ AllTerminal
    /\ \E w \in Workers : wpc[w] = "range"

\* The records of a slice.
Records(opts) == {opts[i] : i \in DOMAIN opts}

\* C12: every record a fetch returns, and every record main holds, ranks or
\* prints, has volatility > 0.
C12_PositiveVolatility ==
    /\ \A i \in DOMAIN results :
          \A r \in Records(results[i]) : r.Volatility > 0
    /\ \A r \in Records(options) \cup Records(top) \cup Records(bottom) :
          r.Volatility > 0

\* main ranks the records of a chain with a leaf whose first contract has
\* volatility below 0 and a leaf whose first contract has volatility 0.
C12_Witness ==
    /\ mainPc = "print"
    /\ Len(options) > 0
    /\ \E c \in chainOf[1] :
          /\ Len(c.callExpDateMap["e1"]["s1"]) = 2
          /\ c.callExpDateMap["e1"]["s1"][1].Volatility < 0
          /\ Len(c.callExpDateMap["e1"]["s2"]) = 1
          /\ c.callExpDateMap["e1"]["s2"][1].Volatility = 0

\* The ticker and the volatility of a record.
Shown(r) == <<r.Symbol, r.Volatility>>

\* C13: the example of two tickers.  With the first ticker's fetch yielding
\* volatilities 10, 50, 30 and the second's 90, 5, the run ends with a top
\* output that starts 90 (second), 50 (first) and a bottom output that
\* starts 5 (second), 10 (first).
C13_Example ==
    mainPc \in {"done", "panic"} =>
        /\ Len(top) >= 2
        /\ Shown(top[1]) = <<2, 90>>
        /\ Shown(top[2]) = <<1, 50>>
        /\ Len(bottom) >= 2
        /\ Shown(bottom[1]) = <<2, 5>>
        /\ Shown(bottom[2]) = <<1, 10>>

\* C14: a failed refresh fails the job.  When a token exchange ends without
\* the endpoint having issued a pair (a status other than 200, a body that
\* does not decode, no answer), the worker is back at its loop with the job
\* Failed: only the first chain request was sent, nothing was put on
\* results, the job returned no record and the worker keeps its pair.
C14_RefreshFailure ==
    /\ [][\A w \in Workers :
            (wpc[w] = "refresh" /\ wpc'[w] # "refresh" /\ issued' = issued)
                => /\ wpc'[w] = "range"
                   /\ chainReqs[w] = 1
                   /\ chainReqs'[w] = 0
                   /\ bearer'[w] = 0
                   /\ results' = results
                   /\ jobInfo'[stock[w]] = [state |-> "failed", returned |-> 0]
                   /\ accessToken'[w] = accessToken[w]
                   /\ refreshToken'[w] = refreshToken[w]]_vars
    /\ [](\A t \in DOMAIN jobInfo :
            jobInfo[t].state = "failed" =>
                /\ CountOf(options, t) = 0
                /\ \A i \in DOMAIN results : CountOf(results[i], t) = 0)

\* Every job failed though the token endpoint never issued a pair, in a run
\* of 401 answers: the exchange of each failed.
C14_Witness ==
    /\ issued = InitialToken
    /\ \A t \in DOMAIN jobInfo : jobInfo[t].state = "failed"

\* C15: pool lifecycle.  The numWorkers workers share the one jobs channel;
\* it is closed once, after the last ticker was submitted, and nothing is
\* sent on it afterwards; once it is closed and empty every worker
\* terminates.
C15_PoolLifecycle ==
    /\ [](DOMAIN wpc = Workers /\ Cardinality(Workers) = numWorkers)
    /\ [](closed => submitted = NTickers)
    /\ [][closed => (closed' /\ Len(jobs') <= Len(jobs))]_vars
    /\ (submitted = NTickers) ~> closed
    /\ (closed /\ jobs = <<>>) ~> AllWorkersExited

\* Every worker has left its loop after a run in which a job failed.
C15_Witness ==
    /\ AllWorkersExited
    /\ closed
    /\ jobs = <<>>
    /\ \E t \in DOMAIN jobInfo : jobInfo[t].state = "failed"

\* Number of times ticker t is in the jobs channel.
InJobs(t) == Cardinality({i \in DOMAIN jobs : jobs[i] = t})

\* The workers whose loop variable holds ticker t.
Holders(t) == {w \in Workers : stock[w] = t}

\* Number of jobs main created for ticker t.
Created(t) == Cardinality({i \in 1..submitted : stockTickers[i] = t})

\* C16: each job is consumed exactly once.  A ticker of the file has one job
\* once main submitted it, and that job is in the channel, or with exactly
\* one worker, or over; when every worker has terminated no job is left.
C16_ConsumedOnce ==
    /\ \A t \in DOMAIN jobInfo :
          /\ Created(t) <= 1
          /\ InJobs(t) + Cardinality(Holders(t))
                + (IF Terminal(t) THEN 1 ELSE 0) = Created(t)
          /\ jobInfo[t].state = "taken" <=> Cardinality(Holders(t)) = 1
    /\ AllWorkersExited =>
          /\ submitted = NTickers
          /\ jobs = <<>>
          /\ AllTerminal

\* Two workers hold the two jobs of the file at once.
C16_Witness ==
    \E w1, w2 \in Workers : stock[w1] = 1 /\ stock[w2] = 2

\* Record a is before record b in the input: its ticker is earlier in the
\* file, or it is of the same ticker and listed earlier in the answer.
InputBefore(a, b) ==
    \/ a.Symbol < b.Symbol
    \/ a.Symbol = b.Symbol /\ a.OptionSymbol < b.OptionSymbol

\* C17: deterministic, stable ranking.  The ranked slice is the one
\* arrangement of the collected records that is descending by volatility
\* with equal volatilities in input order, so that every run on the same
\* file and the same answers ranks alike.
C17_StableRanking ==
    mainPc \in {"print", "done", "panic"} =>
        \A i, j \in DOMAIN options :
            i < j => \/ options[i].Volatility > options[j].Volatility
                     \/ /\ options[i].Volatility = options[j].Volatility
                        /\ InputBefore(options[i], options[j])

\* The leaves of a map expiration -> strike -> contracts.
LeavesOf(m) == UNION {{m[e][k] : k \in DOMAIN m[e]} : e \in DOMAIN m}

\* The records the first-listed policy asks of ticker s and chain c: for
\* each leaf with a contract whose first contract has volatility > 0, the
\* record of that contract and of the chain's underlying.
Representatives(s, c) ==
    {[Symbol |-> s,
      LastStockPrice |-> c.Underlying.Last,
      OptionSymbol |-> l[1].Symbol,
      Volatility |-> l[1].Volatility] :
        l \in {x \in LeavesOf(c.callExpDateMap) \cup LeavesOf(c.putExpDateMap) :
                 Len(x) > 0 /\ x[1].Volatility > 0}}

\* The records of a run in which every ticker's fetch succeeded.
Collected ==
    UNION {UNION {Representatives(t, c) : c \in chainOf[t]} :
             t \in DOMAIN chainOf}

\* C18: ranking is fully descending.  After the sort, adjacent records of
\* the ranked slice are in descending order of volatility and the slice is a
\* permutation of the records collected; the top selection is the first K
\* records of the slice, so that no record outside it has a higher
\* volatility than one in it.
C18_Descending ==
    mainPc \in {"print", "done", "panic"} =>
        /\ \A i \in 1..(Len(options) - 1) :
              options[i].Volatility >= options[i + 1].Volatility
        /\ Records(options) = Collected
        /\ Len(options) = Cardinality(Collected)
        /\ mainPc = "done" =>
              /\ Len(top) = K
              /\ top = SubSeq(options, 1, K)
              /\ \A i \in 1..(K - 1) :
                    top[i].Volatility >= top[i + 1].Volatility
              /\ \A j \in (K + 1)..Len(options) :
                    top[K].Volatility >= options[j].Volatility

\* main has printed the selections of more than K records, two of which
\* have the same volatility.
C18_Witness ==
    /\ mainPc = "done"
    /\ Len(options) > K
    /\ \E i \in 1..(Len(options) - 1) :
          options[i].Volatility = options[i + 1].Volatility

\* The slice opts holds each record of the set R once and nothing else.
EachOnce(opts, R) == Records(opts) = R /\ Len(opts) = Cardinality(R)

\* C19: first-listed-contract policy.  The batch of a ticker holds, once
\* each, the records of the first contracts of the leaves that have a
\* contract and whose first contract has volatility > 0, with the ticker and
\* the underlying's last price; empty leaves and later contracts give no
\* record.
C19_FirstListed ==
    \A c \in chainOf[stockTickers[1]] :
        /\ \A i \in DOMAIN results :
              EachOnce(results[i], Representatives(stockTickers[1], c))
        /\ received = 1 =>
              EachOnce(options, Representatives(stockTickers[1], c))

\* A batch of two records of a chain whose first call leaf has two
\* contracts and whose put leaf is empty.
C19_Witness ==
    /\ \E i \in DOMAIN results : Len(results[i]) = 2
    /\ \E c \in chainOf[1] :
          /\ Len(c.callExpDateMap["e1"]["s1"]) = 2
          /\ c.putExpDateMap["e2"]["s1"] = <<>>

\* C20: cancellation teardown.  After a request to stop, a worker that was
\* waiting on the limiter leaves the wait without a token being taken from
\* the bucket, and its job is abandoned.
C20_CancelledWait ==
    [][\A w \in Workers :
         (cancelled /\ wpc[w] = "wait" /\ wpc'[w] # "wait")
            => /\ tokens' = tokens
               /\ wpc'[w] = "range"
               /\ jobInfo'[stock[w]].state = "failed"]_vars

\* The workers whose current job has been granted its permit by the limiter.
Permitted == {w \in Workers : wpc[w] \in {"fetch", "refresh", "retry"}}

\* C21: every chain request has a permit of its own.  The chain requests
\* sent so far by the jobs under way, first attempts and retries together,
\* are no more than the permits the limiter granted to those jobs.
C21_PermitPerRequest ==
    SumSeq([w \in Workers |-> chainReqs[w]]) <= Cardinality(Permitted)

\* C22: a successful token exchange is adopted.  When a job in which
\* refreshTokens returned a pair ends, with whatever answer to the retried
\* request, the worker holds each token of that pair that is not empty, so
\* that its next request and its next refresh use them.
C22_ExchangeAdopted ==
    [][\A w \in Workers :
         (wpc[w] = "retry" /\ wpc'[w] # "retry")
            => /\ newAccessToken[w] # 0
                    => accessToken'[w] = newAccessToken[w]
               /\ newRefreshToken[w] # 0
                    => refreshToken'[w] = newRefreshToken[w]]_vars

\* C23: frame of a worker's credentials.  The pair a worker holds changes
\* only in the step that ends one of its own jobs with success; the steps
\* of other workers and the end of its own abandoned jobs leave it as it
\* was.
C23_CredentialFrame ==
    [][\A w \in Workers :
         (accessToken'[w] # accessToken[w] \/ refreshToken'[w] # refreshToken[w])
            => /\ wpc[w] = "retry"
               /\ wpc'[w] = "range"
               /\ jobInfo[stock[w]].state = "taken"
               /\ jobInfo'[stock[w]].state = "succeeded"]_vars

\* A worker holds a pair of a token exchange while another still holds the
\* initial pair and a job was abandoned.
C23_Witness ==
    /\ \E w, v \in Workers :
          /\ accessToken[w] > InitialToken
          /\ refreshToken[w] > InitialToken
          /\ accessToken[v] = InitialToken
          /\ refreshToken[v] = InitialToken
    /\ \E t \in DOMAIN jobInfo : jobInfo[t].state = "failed"

\* C24: no channel send blocks.  Neither channel ever holds more than
\* len(stockTickers) values; whenever main is about to send a ticker the
\* jobs channel has room, and whenever a worker is in a fetch whose batch it
\* would send the results channel has room.
C24_NoSendBlocks ==
    /\ Len(jobs) <= NTickers
    /\ Len(results) <= NTickers
    /\ (mainPc = "submit" /\ submitted < NTickers) => Len(jobs) < JobsCap
    /\ \A w \in Workers :
          wpc[w] \in {"fetch", "retry"} => Len(results) < ResultsCap

\* Every batch of the run is in the results channel before main has closed
\* the jobs channel.
C24_Witness ==
    /\ mainPc = "submit"
    /\ Len(results) = NTickers

\* The goroutines of the draft whose slice main has received.
DraftDone == {i \in DOMAIN gpc : gpc[i] = "done"}

\* C25: the draft with a goroutine per ticker.  Each getOptionsData
\* goroutine leaves its request either for the send of its one slice or by
\* ending the process; main has received exactly one slice from each
\* goroutine that is done and ranks only when all are; while main waits and
\* the process runs, a goroutine is still to send; and main's receive loop
\* ends, by its last receive or by the end of the process.
C25_DraftCollects ==
    /\ [][\A i \in DOMAIN gpc :
            (gpc[i] = "fetch" /\ gpc'[i] # "fetch")
                => (gpc'[i] = "send" /\ ~exited')]_vars
    /\ [][\A i \in DOMAIN gpc :
            (gpc[i] = "fetch" /\ gpc'[i] = "fetch" /\ exited' # exited)
                => exited']_vars
    /\ [](received = Cardinality(DraftDone))
    /\ [](mainPc \in {"print", "done", "panic"} => DraftDone = DOMAIN gpc)
    /\ []((~exited /\ mainPc = "collect" /\ received < NTickers)
            => \E i \in DOMAIN gpc : gpc[i] \in {"fetch", "send"})
    /\ (mainPc = "collect") ~> (exited \/ received = NTickers)

\* The process was ended by a goroutine after main had received the slice of
\* another.
C25_Witness ==
    /\ exited
    /\ received >= 1
    /\ mainPc = "collect"

=============================================================================
